---- MODULE Spec2Model ----
(***************************************************************************)
(* A model of the DarkNode backend: the crypto codec (CryptoImpl), the     *)
(* coordinator's registries (MockNodeManager, MockRpcManager), the circuit *)
(* builder (RouterImpl / MockRouter) and the entry node's circuit cache    *)
(* (EntryNodeService).                                                     *)
(*                                                                         *)
(* The node processes are separate programs with separate state, so the    *)
(* module states one specification per component:                          *)
(*   SpecCrypto       the pure functions of CryptoImpl                     *)
(*   SpecRpcManager   the provider registry of the coordinator / exit node *)
(*   SpecNodeManager  the node registry of the coordinator                 *)
(*   Spec             the entry node: circuit cache, router, clock         *)
(*   SpecRouter       the circuit builder over the node registry           *)
(*   SpecExit         the exit node in front of the RPC providers          *)
(*   SpecTasks        get_or_create_circuit, one await point at a time     *)
(*   SpecRouting      a routing node and its /forward endpoint             *)
(*   SpecCoordinator  the coordinator's topology and health operations     *)
(***************************************************************************)
EXTENDS Integers, Sequences, FiniteSets, TLC

VARIABLES
    nodes,            \* MockNodeManager.nodes: Vec<Node>
    providers,        \* MockRpcManager.providers: Vec<RpcProvider>
    users,            \* MockUserManager.users: Vec<User>
    active_circuits,  \* EntryNodeService.active_circuits: api_key -> Circuit
    router,           \* which Router implementation the entry service holds
    now,              \* SystemTime::now(), in seconds
    rng,              \* number of values drawn so far from OsRng / Uuid::new_v4
    wire,             \* messages in flight between the entry node and the first hop
    next_hop_connections, \* RoutingNodeService.next_hop_connections, per routing node
    calls,            \* the get_or_create_circuit calls in progress (SpecTasks)
    cx,               \* the crypto session under test (SpecCrypto)
    ret               \* what the last operation was given and returned

vars == <<nodes, providers, users, active_circuits, router, now, rng, wire,
          next_hop_connections, calls, cx, ret>>

----------------------------------------------------------------------------
(* Bounds of the model. *)

MaxProviders == 3   \* length of the provider registry
MaxNodes == 2       \* length of the node registry (SpecNodeManager)
MaxTicks == 2       \* clock advances
TickSecs == 1800    \* seconds per clock advance
MaxDraws == 12      \* values drawn from the random source
MaxPayload == 2     \* distinct plaintexts
MaxRpcId == 2       \* JSON-RPC ids a client uses
MaxTasks == 2       \* concurrent calls of get_or_create_circuit

(* Program constants. *)

NONCE_LEN == 12
CIRCUIT_TTL == 3600

\* The time that passes between two successive SystemTime::now() reads:
\* none that the clock resolves, or some.
Elapsed == {0, 1}

----------------------------------------------------------------------------
(* Option<T> and Result<T>; a panic aborts the task instead of returning.  *)

None == [kind |-> "none"]
Some(x) == [kind |-> "some", val |-> x]
Ok(x) == [kind |-> "ok", val |-> x]
Err(e) == [kind |-> "err", error |-> e]
Panic == [kind |-> "panic"]

RECURSIVE SeqToSet(_)
SeqToSet(s) == IF s = <<>> THEN {} ELSE {Head(s)} \cup SeqToSet(Tail(s))

\* iter().position(pred): the first index whose element is in the set, 0 if none
FirstIndex(s, matching) ==
    IF \E i \in 1..Len(s) : s[i] \in matching
    THEN CHOOSE i \in 1..Len(s) : s[i] \in matching /\ \A j \in 1..(i - 1) : s[j] \notin matching
    ELSE 0

----------------------------------------------------------------------------
(* CryptoImpl: Ed25519 key pairs, SHA-256 key derivation, ChaCha20Poly1305 *)
(* Byte strings are symbolic: two byte strings are equal exactly when they *)
(* were built the same way.                                                *)

Seeds == 1..2
Payloads == 1..MaxPayload
NonceVals == {"n1", "n2"}

\* Keypair::generate: the secret is 32 random bytes, the public key is the
\* curve point derived from it, a different byte string.
SecretBytes(seed) == [ed25519 |-> "secret", seed |-> seed]
PublicBytes(seed) == [ed25519 |-> "public", seed |-> seed]

\* generate_keypair returns (public_key, private_key).
generate_keypair(seed) == <<PublicBytes(seed), SecretBytes(seed)>>

KeyBytes == {SecretBytes(s) : s \in Seeds} \cup {PublicBytes(s) : s \in Seeds}

\* Sha256 is collision free: equal digests only for equal inputs.
Sha256(bytes) == [sha256 |-> bytes]

\* ChaCha20Poly1305 seal: the ciphertext with its authentication tag.
AeadEncrypt(key, nonce, plaintext) ==
    [key |-> key, nonce |-> nonce, pt |-> plaintext, intact |-> TRUE]

\* ChaCha20Poly1305 open: the tag verifies only for the sealing key and nonce
\* and an unmodified ciphertext.
AeadDecrypt(key, nonce, ct) ==
    IF ct.intact /\ ct.key = key /\ ct.nonce = nonce
    THEN Ok(ct.pt)
    ELSE Err("aead::Error")

\* encrypt(data, public_key) with the 12 random bytes OsRng produced.
encrypt(data, public_key, nonce_val) ==
    LET key == Sha256(public_key)
        nonce_bytes == [len |-> NONCE_LEN, val |-> nonce_val]
    IN  [data |-> AeadEncrypt(key, nonce_bytes, data), nonce |-> nonce_bytes, aad |-> None]

\* decrypt(data, private_key). Nonce::from_slice asserts the slice length.
decrypt(data, private_key) ==
    LET key == Sha256(private_key)
    IN  IF data.nonce.len # NONCE_LEN
        THEN Panic
        ELSE AeadDecrypt(key, data.nonce, data.data)

\* PublicKey::from(&secret): the public key of the pair the secret belongs to;
\* for 32 bytes that are not a generated secret, the point derived from them.
PublicFrom(secret_bytes) ==
    IF secret_bytes.ed25519 = "secret"
    THEN PublicBytes(secret_bytes.seed)
    ELSE [ed25519 |-> "public", seed |-> secret_bytes]

\* sign(data, private_key): the 64 signature bytes of the derived key pair.
sign(data, private_key) ==
    Ok([signer |-> PublicFrom(private_key), data |-> data,
        encoding |-> "valid", intact |-> TRUE])

\* A verify that reads the two halves of the signature by slice index, which
\* panics when the slice is too short.
verify_SliceIndex(data, signature, public_key) ==
    IF signature.encoding = "truncated" THEN Panic
    ELSE IF signature.encoding # "valid" THEN Err("signature error")
    ELSE Ok(signature.intact /\ signature.signer = public_key /\ signature.data = data)

\* verify(data, signature, public_key), public_key the encoding of a curve
\* point. Signature::from_bytes returns an error for a slice that is not 64
\* bytes long or whose scalar has its top bits set.
verify(data, signature, public_key) ==
    IF signature.encoding # "valid" THEN Err("signature error")
    ELSE Ok(signature.intact /\ signature.signer = public_key /\ signature.data = data)

----------------------------------------------------------------------------
(* The crypto session: one message is encrypted for a key pair, possibly   *)
(* modified in transit, and decrypted with some key.                       *)

CxIdle == [stage |-> "idle"]

TamperKinds == {"flip_ciphertext", "short_nonce", "other_nonce"}

Tampered(ed, how) ==
    CASE how = "flip_ciphertext" -> [ed EXCEPT !.data.intact = FALSE]
      [] how = "short_nonce"     -> [ed EXCEPT !.nonce.len = NONCE_LEN - 1]
      [] how = "other_nonce"     ->
            [ed EXCEPT !.nonce.val = CHOOSE v \in NonceVals : v # ed.nonce.val]

CryptoEncrypt(m, seed, nonce_val) ==
    /\ cx.stage = "idle"
    /\ cx' = [stage |-> "encrypted", m |-> m, seed |-> seed, how |-> "none",
              ed |-> encrypt(m, generate_keypair(seed)[1], nonce_val)]
    /\ UNCHANGED <<nodes, providers, users, active_circuits, router, now, rng, wire, calls, ret, next_hop_connections>>

CryptoTamper(how) ==
    /\ cx.stage = "encrypted"
    /\ cx.how = "none"
    /\ cx' = [cx EXCEPT !.how = how, !.ed = Tampered(cx.ed, how)]
    /\ UNCHANGED <<nodes, providers, users, active_circuits, router, now, rng, wire, calls, ret, next_hop_connections>>

CryptoDecrypt(key) ==
    /\ cx.stage = "encrypted"
    /\ cx' = [cx EXCEPT !.stage = "decrypted"] @@ [key |-> key, out |-> decrypt(cx.ed, key)]
    /\ UNCHANGED <<nodes, providers, users, active_circuits, router, now, rng, wire, calls, ret, next_hop_connections>>

SignatureTamperKinds == {"truncated", "bad_scalar", "flipped"}

TamperedSignature(sig, how) ==
    CASE how = "truncated"  -> [sig EXCEPT !.encoding = "truncated"]
      [] how = "bad_scalar" -> [sig EXCEPT !.encoding = "bad_scalar"]
      [] how = "flipped"    -> [sig EXCEPT !.intact = FALSE]

\* One message is signed with the private key of a key pair.
CryptoSign(m, seed) ==
    /\ cx.stage = "idle"
    /\ cx' = [stage |-> "signed", m |-> m, seed |-> seed, how |-> "none",
              sig |-> sign(m, generate_keypair(seed)[2]).val]
    /\ UNCHANGED <<nodes, providers, users, active_circuits, router, now, rng, wire, calls, ret, next_hop_connections>>

\* The signature is modified in transit.
CryptoTamperSignature(how) ==
    /\ cx.stage = "signed"
    /\ cx.how = "none"
    /\ cx' = [cx EXCEPT !.how = how, !.sig = TamperedSignature(cx.sig, how)]
    /\ UNCHANGED <<nodes, providers, users, active_circuits, router, now, rng, wire, calls, ret, next_hop_connections>>

\* The signature is verified for some message under some public key.
CryptoVerify(data, public_key) ==
    /\ cx.stage = "signed"
    /\ cx' = [cx EXCEPT !.stage = "verified"]
             @@ [data |-> data, key |-> public_key,
                 out |-> verify(data, cx.sig, public_key)]
    /\ UNCHANGED <<nodes, providers, users, active_circuits, router, now, rng, wire, calls, ret, next_hop_connections>>

CryptoReset ==
    /\ cx.stage \in {"decrypted", "verified"}
    /\ cx' = CxIdle
    /\ UNCHANGED <<nodes, providers, users, active_circuits, router, now, rng, wire, calls, ret, next_hop_connections>>

----------------------------------------------------------------------------
(* MockRpcManager: the provider registry, a Vec<RpcProvider>.              *)

ProviderIds == {1, 2, 3}
Rates == {98, 99}          \* success_rate in percent
Latencies == {100, 120}    \* avg_latency in milliseconds

ProviderInputs ==
    [id : ProviderIds, active : BOOLEAN, success_rate : Rates, avg_latency : Latencies]

\* providers.push(provider)
register_provider(ps, provider) == Append(ps, provider)

\* providers.iter_mut().find(|p| p.id == provider_id): the first match only
update_provider_status(ps, provider_id, active) ==
    LET i == FirstIndex(ps, {p \in SeqToSet(ps) : p.id = provider_id})
    IN  IF i = 0 THEN ps ELSE [ps EXCEPT ![i].active = active]

IsActive(p) == p.active

get_active_providers(ps) == SelectSeq(ps, IsActive)

\* Iterator::max_by folds from the left and keeps the later element unless the
\* earlier one compares Greater.
RECURSIVE MaxBySuccessRate(_, _)
MaxBySuccessRate(best, rest) ==
    IF rest = <<>> THEN best
    ELSE MaxBySuccessRate(
            IF best.success_rate > Head(rest).success_rate THEN best ELSE Head(rest),
            Tail(rest))

get_best_provider(ps) ==
    LET active_providers == SelectSeq(ps, IsActive)
    IN  IF active_providers = <<>>
        THEN None
        ELSE Some(MaxBySuccessRate(Head(active_providers), Tail(active_providers)))

RegisterProvider(provider) ==
    /\ Len(providers) < MaxProviders
    /\ providers' = register_provider(providers, provider)
    /\ ret' = [op |-> "register_provider", provider |-> provider, result |-> Ok("unit")]
    /\ UNCHANGED <<nodes, users, active_circuits, router, now, rng, wire, calls, cx, next_hop_connections>>

UpdateProviderStatus(provider_id, active) ==
    /\ providers' = update_provider_status(providers, provider_id, active)
    /\ ret' = [op |-> "update_provider_status", provider_id |-> provider_id,
               active |-> active, result |-> Ok("unit")]
    /\ UNCHANGED <<nodes, users, active_circuits, router, now, rng, wire, calls, cx, next_hop_connections>>

GetActiveProviders ==
    /\ ret' = [op |-> "get_active_providers", result |-> Ok(get_active_providers(providers))]
    /\ UNCHANGED <<nodes, providers, users, active_circuits, router, now, rng, wire, calls, cx, next_hop_connections>>

GetBestProvider ==
    /\ ret' = [op |-> "get_best_provider", result |-> Ok(get_best_provider(providers))]
    /\ UNCHANGED <<nodes, providers, users, active_circuits, router, now, rng, wire, calls, cx, next_hop_connections>>

----------------------------------------------------------------------------
(* MockNodeManager: the node registry, a Vec<Node>.                        *)

NodeIds == {1, 2}
Roles == {"Entry", "Routing", "Exit", "Coordinator"}
Statuses == {"Online", "Busy", "Offline", "Maintenance"}

Regions == {"us-east", "eu-west"}

\* The region a node of the given id reports when it registers.
HomeRegion(id) == IF id \in {2, 3} THEN "us-east" ELSE "eu-west"

\* Node: of the fields that no operation of the registry writes (public_key,
\* ip_address, port, last_seen, region, load) the record keeps region.
NodeInputs ==
    {[id |-> id, role |-> role, status |-> status, region |-> HomeRegion(id)] :
        id \in NodeIds, role \in Roles, status \in Statuses}

\* nodes.push(node)
register_node(ns, node) == Append(ns, node)

\* A variant that drops a node from the registry when it is reported Offline.
update_node_status_EvictOffline(ns, node_id, status) ==
    LET i == FirstIndex(ns, {n \in SeqToSet(ns) : n.id = node_id})
        Others(n) == n.id # node_id
    IN  IF i = 0 THEN ns
        ELSE IF status = "Offline" THEN SelectSeq(ns, Others)
        ELSE [ns EXCEPT ![i].status = status]

\* nodes.iter_mut().find(|n| n.id == *node_id): the first match only
\* An update that registers the node when no node has the id.
update_node_status_Upsert(ns, node_id, status) ==
    LET i == FirstIndex(ns, {n \in SeqToSet(ns) : n.id = node_id})
    IN  IF i = 0
        THEN Append(ns, [id |-> node_id, role |-> "Routing", status |-> status,
                         region |-> HomeRegion(node_id)])
        ELSE [ns EXCEPT ![i].status = status]

update_node_status(ns, node_id, status) ==
    LET i == FirstIndex(ns, {n \in SeqToSet(ns) : n.id = node_id})
    IN  IF i = 0 THEN ns ELSE [ns EXCEPT ![i].status = status]

\* The filter with the status test left out.
get_available_nodes_AnyStatus(ns, role) ==
    LET Available(n) == n.role = role
    IN  SelectSeq(ns, Available)

\* filter(|n| n.role == role && n.status == NodeStatus::Online)
get_available_nodes(ns, role) ==
    LET Available(n) == n.role = role /\ n.status = "Online"
    IN  SelectSeq(ns, Available)

\* nodes.iter().find(|n| n.id == *node_id).cloned()
get_node(ns, node_id) ==
    LET i == FirstIndex(ns, {n \in SeqToSet(ns) : n.id = node_id})
    IN  IF i = 0 THEN None ELSE Some(ns[i])

RegisterNode(node) ==
    /\ Len(nodes) < MaxNodes
    /\ nodes' = register_node(nodes, node)
    /\ ret' = [op |-> "register_node", node |-> node, result |-> Ok("unit")]
    /\ UNCHANGED <<providers, users, active_circuits, router, now, rng, wire, calls, cx, next_hop_connections>>

UpdateNodeStatus(node_id, status) ==
    /\ nodes' = update_node_status(nodes, node_id, status)
    /\ ret' = [op |-> "update_node_status", node_id |-> node_id, status |-> status,
               result |-> Ok("unit")]
    /\ UNCHANGED <<providers, users, active_circuits, router, now, rng, wire, calls, cx, next_hop_connections>>

GetAvailableNodes(role) ==
    /\ ret' = [op |-> "get_available_nodes", role |-> role,
               result |-> Ok(get_available_nodes(nodes, role))]
    /\ UNCHANGED <<nodes, providers, users, active_circuits, router, now, rng, wire, calls, cx, next_hop_connections>>

GetNode(node_id) ==
    /\ ret' = [op |-> "get_node", node_id |-> node_id, result |-> Ok(get_node(nodes, node_id))]
    /\ UNCHANGED <<nodes, providers, users, active_circuits, router, now, rng, wire, calls, cx, next_hop_connections>>

----------------------------------------------------------------------------
(* Router: RouterImpl (lib.rs) and MockRouter (the entry node binary).     *)
(* Random draws are fresh: the k-th draw of the process is value k.        *)

\* Uuid::new_v4(): a fresh identifier, never one a caller supplied
new_v4(k) == 0 - k

\* One key pair generated before the loop and pushed for every hop.
HopKeys_Reused(n, r) == [i \in 1..n |-> generate_keypair(r + 1)[1]]

\* for _ in 0..n { symmetric_keys.push(generate_keypair().0) }
HopKeys(n, r) == [i \in 1..n |-> generate_keypair(r + i)[1]]

\* RouterImpl::create_circuit with r values drawn so far. created_at and
\* expires_at come from two reads of the system clock: the first returns t,
\* the second t + dt.
RouterImpl_create_circuit(ns, t, dt, r) ==
    LET entry_nodes == get_available_nodes(ns, "Entry")
        routing_nodes == get_available_nodes(ns, "Routing")
        exit_nodes == get_available_nodes(ns, "Exit")
    IN  IF entry_nodes = <<>> THEN [res |-> Err("No available entry nodes"), rng |-> r]
        ELSE IF routing_nodes = <<>> THEN [res |-> Err("No available routing nodes"), rng |-> r]
        ELSE IF exit_nodes = <<>> THEN [res |-> Err("No available exit nodes"), rng |-> r]
        ELSE
            LET selected_routing_nodes ==
                    << routing_nodes[1].id,
                       routing_nodes[(1 % Len(routing_nodes)) + 1].id >>
                n == Len(selected_routing_nodes) + 2
            IN  [res |-> Ok([id |-> new_v4(r + n + 1),
                             entry_node |-> entry_nodes[1].id,
                             routing_nodes |-> selected_routing_nodes,
                             exit_node |-> exit_nodes[1].id,
                             symmetric_keys |-> HopKeys(n, r),
                             created_at |-> t,
                             expires_at |-> (t + dt) + CIRCUIT_TTL]),
                 rng |-> r + n + 1]

\* MockRouter::create_circuit: random node ids, no registry
MockRouter_create_circuit(t, dt, r) ==
    LET routing_nodes == <<new_v4(r + 2), new_v4(r + 3)>>
        n == Len(routing_nodes) + 2
    IN  [res |-> Ok([id |-> new_v4(r + 4 + n + 1),
                     entry_node |-> new_v4(r + 1),
                     routing_nodes |-> routing_nodes,
                     exit_node |-> new_v4(r + 4),
                     symmetric_keys |-> HopKeys(n, r + 4),
                     created_at |-> t,
                     expires_at |-> (t + dt) + CIRCUIT_TTL]),
         rng |-> r + 4 + n + 1]

create_circuit(impl, ns, t, dt, r) ==
    IF impl = "RouterImpl" THEN RouterImpl_create_circuit(ns, t, dt, r)
    ELSE MockRouter_create_circuit(t, dt, r)

\* send_request: a fresh request id; nothing is encrypted, stored or sent
send_request(circuit, request, w, r) ==
    [res |-> Ok(new_v4(r + 1)), wire |-> w, rng |-> r + 1]

\* Response bytes: plain text, or the serialisation of a JSON object
TextBytes(text) == [text |-> text]
JsonBytes(object) == [json |-> object]

\* receive_response: a fixed answer, whatever the request id
receive_response(impl, request_id) ==
    IF impl = "RouterImpl" THEN Ok(TextBytes("dummy response"))
    ELSE Ok(JsonBytes([jsonrpc |-> "2.0", id |-> 1, result |-> "0x123456"]))

----------------------------------------------------------------------------
(* The entry node's collaborators and EntryNodeService.                    *)

\* MockUserManager: users.iter().find(|u| u.api_key == api_key)
get_user_by_api_key(us, api_key) ==
    LET i == FirstIndex(us, {u \in SeqToSet(us) : u.api_key = api_key})
    IN  IF i = 0 THEN None ELSE Some(us[i])

\* MockRequestSanitizer returns its argument as it is
sanitize_request(request) == Ok(request)
prepare_response(response) == Ok(response)

EmptyMap == [k \in {} |-> None]

\* An insert that drops every other entry of the map.
Insert_Only(map, key, value) == [k \in {key} |-> value]

\* DashMap::insert
Insert(map, key, value) ==
    [k \in (DOMAIN map) \cup {key} |-> IF k = key THEN value ELSE map[k]]

\* DashMap::get
Lookup(map, key) == IF key \in DOMAIN map THEN Some(map[key]) ELSE None

\* The expiry test with the boundary included: a circuit expiring now passes.
StillValid_Inclusive(circuit, t) == circuit.expires_at >= t

\* The expiry test with the comparison reversed.
StillValid_Reversed(circuit, t) == circuit.expires_at < t

\* The expiry test joined with a test that every registered hop of the circuit
\* is Online.
StillValid_HopsOnline(circuit, t) ==
    /\ circuit.expires_at > t
    /\ \A i \in DOMAIN nodes :
          nodes[i].id \in {circuit.entry_node, circuit.exit_node,
                           circuit.routing_nodes[1], circuit.routing_nodes[2]}
          => nodes[i].status = "Online"

\* if circuit.expires_at > SystemTime::now()
StillValid(circuit, t) == circuit.expires_at > t

\* DashMap::remove
Remove(map, key) == [k \in (DOMAIN map) \ {key} |-> map[k]]

\* A variant that evicts the stale entry before it builds the replacement.
get_or_create_circuit_EvictFirst(cache, impl, ns, api_key, t, dt, r) ==
    LET cached == Lookup(cache, api_key)
    IN  IF cached.kind = "some" /\ StillValid(cached.val, t)
        THEN [res |-> Ok(cached.val), cache |-> cache, rng |-> r,
              cached |-> cached, built |-> FALSE]
        ELSE
            LET evicted == Remove(cache, api_key)
                made == create_circuit(impl, ns, t, dt, r)
            IN  IF made.res.kind = "err"
                THEN [res |-> made.res, cache |-> evicted, rng |-> made.rng,
                      cached |-> cached, built |-> FALSE]
                ELSE [res |-> made.res, cache |-> Insert(evicted, api_key, made.res.val),
                      rng |-> made.rng, cached |-> cached, built |-> TRUE]

\* EntryNodeService::get_or_create_circuit
get_or_create_circuit(cache, impl, ns, api_key, t, dt, r) ==
    LET cached == Lookup(cache, api_key)
    IN  IF cached.kind = "some" /\ StillValid(cached.val, t)
        THEN [res |-> Ok(cached.val), cache |-> cache, rng |-> r,
              cached |-> cached, built |-> FALSE]
        ELSE
            LET made == create_circuit(impl, ns, t, dt, r)
            IN  IF made.res.kind = "err"
                THEN [res |-> made.res, cache |-> cache, rng |-> made.rng,
                      cached |-> cached, built |-> FALSE]
                ELSE [res |-> made.res, cache |-> Insert(cache, api_key, made.res.val),
                      rng |-> made.rng, cached |-> cached, built |-> TRUE]

NotCalled == [kind |-> "not_called"]

\* The match with the guard on user.active left out: any existing user passes.
authenticate_NoActiveCheck(user) ==
    IF user.kind = "some" THEN Ok(user.val) ELSE Err("Invalid API key")

\* match get_user_by_api_key(api_key) { Some(user) if user.active => user, ... }
authenticate(user) ==
    IF user.kind = "some" /\ user.val.active THEN Ok(user.val)
    ELSE IF user.kind = "some" THEN Err("User subscription is not active")
    ELSE Err("Invalid API key")

\* EntryNodeService::handle_request
handle_request(cache, impl, ns, us, w, api_key, request, t, dt, r) ==
    LET user == authenticate(get_user_by_api_key(us, api_key))
        unchanged == [cache |-> cache, wire |-> w, rng |-> r, goc |-> NotCalled,
                      sanitized |-> None, request_id |-> None]
    IN  IF user.kind = "err"
        THEN [res |-> user] @@ unchanged
        ELSE
            LET sanitized_request == sanitize_request(request).val
                goc == get_or_create_circuit(cache, impl, ns, api_key, t, dt, r)
                called == [kind |-> "called", res |-> goc.res, cached |-> goc.cached,
                           built |-> goc.built]
            IN  IF goc.res.kind = "err"
                THEN [res |-> goc.res, cache |-> goc.cache, wire |-> w, rng |-> goc.rng,
                      goc |-> called, sanitized |-> Some(sanitized_request),
                      request_id |-> None]
                ELSE
                    LET sent == send_request(goc.res.val, sanitized_request, w, goc.rng)
                        response == receive_response(impl, sent.res.val)
                    IN  [res |-> prepare_response(response.val), cache |-> goc.cache,
                         wire |-> sent.wire, rng |-> sent.rng, goc |-> called,
                         sanitized |-> Some(sanitized_request),
                         request_id |-> Some(sent.res.val)]

----------------------------------------------------------------------------
(* get_or_create_circuit as the tasks of concurrent requests run it, on a  *)
(* runtime whose worker threads run tasks in parallel. The cache is one    *)
(* RwLock around the whole map: a task takes the read lock, looks up and   *)
(* drops the lock before the circuit is built; it builds the circuit; it   *)
(* takes the write lock and inserts. The tasks holding a guard are those   *)
(* at "reading" and "writing".                                             *)

Tasks == 1..MaxTasks
ActiveKeys == {"k1", "k2"}

Idle == [pc |-> "idle"]

\* handle_request reaches self.get_or_create_circuit(api_key) for an active user
TaskCall(t, api_key) ==
    /\ calls[t].pc = "idle"
    /\ authenticate(get_user_by_api_key(users, api_key)).kind = "ok"
    /\ calls' = [calls EXCEPT ![t] = [pc |-> "lookup", api_key |-> api_key]]
    /\ UNCHANGED <<nodes, providers, users, active_circuits, router, now, rng, wire, cx, ret, next_hop_connections>>

Readers == {t \in Tasks : calls[t].pc = "reading"}
Writers == {t \in Tasks : calls[t].pc = "writing"}

\* self.active_circuits.read().await: granted while no task holds the write guard
TaskReadLock(t) ==
    /\ calls[t].pc = "lookup"
    /\ Writers = {}
    /\ calls' = [calls EXCEPT ![t].pc = "reading"]
    /\ UNCHANGED <<nodes, providers, users, active_circuits, router, now, rng, wire, cx, ret, next_hop_connections>>

\* get; the expiry test; return or drop(active_circuits)
TaskLookup(t) ==
    /\ calls[t].pc = "reading"
    /\ LET cached == Lookup(active_circuits, calls[t].api_key)
       IN  calls' = [calls EXCEPT ![t] =
                IF cached.kind = "some" /\ StillValid(cached.val, now)
                THEN [pc |-> "done", api_key |-> calls[t].api_key,
                      result |-> Ok(cached.val), built |-> FALSE]
                ELSE [pc |-> "create", api_key |-> calls[t].api_key]]
    /\ UNCHANGED <<nodes, providers, users, active_circuits, router, now, rng, wire, cx, ret, next_hop_connections>>

\* self.router.create_circuit().await?
TaskCreate(t) ==
    /\ calls[t].pc = "create"
    /\ rng < MaxDraws
    /\ \E dt \in Elapsed :
       LET made == create_circuit(router, nodes, now, dt, rng)
       IN  /\ rng' = made.rng
           /\ calls' = [calls EXCEPT ![t] =
                IF made.res.kind = "err"
                THEN [pc |-> "done", api_key |-> calls[t].api_key,
                      result |-> made.res, built |-> FALSE]
                ELSE [pc |-> "insert", api_key |-> calls[t].api_key,
                      circuit |-> made.res.val]]
    /\ UNCHANGED <<nodes, providers, users, active_circuits, router, now, wire, cx, ret, next_hop_connections>>

\* self.active_circuits.write().await: granted while no task holds any guard
TaskWriteLock(t) ==
    /\ calls[t].pc = "insert"
    /\ Readers = {} /\ Writers = {}
    /\ calls' = [calls EXCEPT ![t].pc = "writing"]
    /\ UNCHANGED <<nodes, providers, users, active_circuits, router, now, rng, wire, cx, ret, next_hop_connections>>

\* insert; Ok(circuit); the write guard goes out of scope
TaskInsert(t) ==
    /\ calls[t].pc = "writing"
    /\ active_circuits' = Insert(active_circuits, calls[t].api_key, calls[t].circuit)
    /\ calls' = [calls EXCEPT ![t] =
            [pc |-> "done", api_key |-> calls[t].api_key,
             result |-> Ok(calls[t].circuit), built |-> TRUE]]
    /\ UNCHANGED <<nodes, providers, users, router, now, rng, wire, cx, ret, next_hop_connections>>

\* The caller takes the result.
TaskReturn(t) ==
    /\ calls[t].pc = "done"
    /\ calls' = [calls EXCEPT ![t] = Idle]
    /\ ret' = [op |-> "get_or_create_circuit", api_key |-> calls[t].api_key,
               at |-> now, result |-> calls[t].result, built |-> calls[t].built]
    /\ UNCHANGED <<nodes, providers, users, active_circuits, router, now, rng, wire, cx, next_hop_connections>>

----------------------------------------------------------------------------
(* The entry endpoint: POST / of the entry node binary.                    *)

RpcIds == 1..MaxRpcId
Methods == {"eth_blockNumber"}

\* serde_json::to_vec(json!({"jsonrpc", "method", "params", "id"}))
RequestJson(method, id) == [jsonrpc |-> "2.0", method |-> method, id |-> id]

\* serde_json::from_slice: the bytes parse only if they are a JSON document
FromSlice(bytes) == IF "json" \in DOMAIN bytes THEN Ok(bytes.json) ELSE Err("not JSON")

\* response[key], Null when the object has no such key
JsonField(json, key) == IF key \in DOMAIN json THEN Some(json[key]) ELSE None

\* What handle_rpc answers for the outcome of handle_request: every error maps
\* to the bare status 500, a parsed response to the envelope {id, result, error}.
HttpAnswer(res) ==
    IF res.kind = "err" THEN [status |-> 500, body |-> None]
    ELSE LET response == FromSlice(res.val)
         IN  IF response.kind = "err" THEN [status |-> 500, body |-> None]
             ELSE [status |-> 200,
                   body |-> Some([id |-> JsonField(response.val, "id"),
                                  result |-> JsonField(response.val, "result"),
                                  error |-> JsonField(response.val, "error")])]

\* handle_rpc: build the request JSON, call the service, wrap its answer
handle_rpc(cache, impl, ns, us, w, api_key, method, id, t, dt, r) ==
    LET request_json == RequestJson(method, id)
        out == handle_request(cache, impl, ns, us, w, api_key, request_json, t, dt, r)
    IN  [http |-> HttpAnswer(out.res), request |-> request_json, svc |-> out]

ApiKeys == {"k1", "k2", "k3", "k4"}

\* A client's POST /: handle_rpc and, inside it, handle_request.
HandleRpc(api_key, method, id) ==
    /\ rng < MaxDraws
    /\ \E rpc \in {handle_rpc(active_circuits, router, nodes, users, wire,
                                api_key, method, id, now, dt, rng) : dt \in Elapsed} :
       LET out == rpc.svc
       IN  /\ active_circuits' = out.cache
           /\ wire' = out.wire
           /\ rng' = out.rng
           /\ ret' = [op |-> "handle_request", api_key |-> api_key, rpc_id |-> id,
                      request |-> rpc.request, at |-> now, result |-> out.res,
                      goc |-> out.goc, sanitized |-> out.sanitized,
                      request_id |-> out.request_id, http |-> rpc.http]
    /\ UNCHANGED <<nodes, providers, users, router, now, calls, cx, next_hop_connections>>

\* Router::receive_response called for a request id outside handle_request:
\* a further response for that id.
ReceiveResponse(request_id) ==
    /\ ret' = [op |-> "receive_response", request_id |-> request_id,
               result |-> receive_response(router, request_id)]
    /\ UNCHANGED <<nodes, providers, users, active_circuits, router, now, rng, wire, calls, cx, next_hop_connections>>

\* The system clock advances.
Tick ==
    /\ now < MaxTicks * TickSecs
    /\ now' = now + TickSecs
    /\ UNCHANGED <<nodes, providers, users, active_circuits, router, rng, wire, calls, cx, ret, next_hop_connections>>

----------------------------------------------------------------------------
(* ExitNodeService: the last hop, in front of the RPC providers.           *)

\* The provider choice collapsed to the first active provider of the registry.
select_provider_FirstActive(ps) ==
    LET active_providers == get_active_providers(ps)
    IN  IF active_providers = <<>> THEN None ELSE Some(Head(active_providers))

\* self.rpc_manager.get_best_provider().await?
select_provider(ps) == get_best_provider(ps)

\* A variant that stamps the response with the provider's id.
ExitNodeService_handle_request_ProviderId(ps, request, t) ==
    LET provider == select_provider(ps)
    IN  IF provider.kind = "none"
        THEN [res |-> Err("No available RPC providers"), provider |-> None,
              dispatched |-> <<>>]
        ELSE [res |-> Ok([request_id |-> provider.val.id,
                          circuit_id |-> request.circuit_id,
                          payload |-> request.payload,
                          created_at |-> t]),
              provider |-> provider, dispatched |-> <<>>]

\* ExitNodeService::handle_request; provider is the local it binds, dispatched
\* the providers it sent the request to, in order: the handler only selects a
\* provider and builds the Response, it sends nothing (rpc_clients is unused).
ExitNodeService_handle_request(ps, request, t) ==
    LET provider == select_provider(ps)
    IN  IF provider.kind = "none"
        THEN [res |-> Err("No available RPC providers"), provider |-> None,
              dispatched |-> <<>>]
        ELSE [res |-> Ok([request_id |-> request.id,
                          circuit_id |-> request.circuit_id,
                          payload |-> request.payload,
                          created_at |-> t]),
              provider |-> provider, dispatched |-> <<>>]

\* Requests reaching the exit node: ids and circuit ids are UUIDs drawn elsewhere.
RequestUuids == {new_v4(1), new_v4(2)}
CircuitUuids == {new_v4(3), new_v4(4)}
ExitPayloads == {encrypt(m, PublicBytes(1), 1) : m \in Payloads}
ExitRequests ==
    [id : RequestUuids, circuit_id : CircuitUuids, payload : ExitPayloads, created_at : {0}]

ExitHandleRequest(request) ==
    /\ LET out == ExitNodeService_handle_request(providers, request, now)
       IN  ret' = [op |-> "exit_handle_request", request |-> request, at |-> now,
                   result |-> out.res, provider |-> out.provider,
                   dispatched |-> out.dispatched]
    /\ UNCHANGED <<nodes, providers, users, active_circuits, router, now, rng, wire, calls, cx, next_hop_connections>>

----------------------------------------------------------------------------
(* State after construction. *)

InitUsers ==
    << [api_key |-> "k1", active |-> TRUE], [api_key |-> "k2", active |-> TRUE],
       [api_key |-> "k3", active |-> FALSE] >>

\* MockRpcManager::new registers two active providers.
InitProviders ==
    << [id |-> 1, active |-> TRUE, success_rate |-> 99, avg_latency |-> 100],
       [id |-> 2, active |-> TRUE, success_rate |-> 98, avg_latency |-> 120] >>

\* The registry of the deployment: the nodes registered with the coordinator.
InitTopology ==
    << [id |-> 1, role |-> "Entry", status |-> "Online", region |-> HomeRegion(1)],
       [id |-> 2, role |-> "Routing", status |-> "Online", region |-> HomeRegion(2)],
       [id |-> 3, role |-> "Routing", status |-> "Online", region |-> HomeRegion(3)],
       [id |-> 4, role |-> "Exit", status |-> "Online", region |-> HomeRegion(4)],
       [id |-> 5, role |-> "Routing", status |-> "Online", region |-> HomeRegion(5)] >>

TopologyIds == {1, 2, 3, 4, 5}

\* The routing nodes; each runs one RoutingNodeService.
RoutingIds == {n.id : n \in {m \in SeqToSet(InitTopology) : m.role = "Routing"}}

InitCommon ==
    /\ nodes = <<>>
    /\ providers = InitProviders
    /\ users = InitUsers
    /\ active_circuits = EmptyMap
    /\ now = 0
    /\ rng = 0
    /\ wire = <<>>
    /\ next_hop_connections = [n \in RoutingIds |-> EmptyMap]
    /\ calls = [t \in Tasks |-> Idle]
    /\ cx = CxIdle
    /\ ret = [op |-> "none"]

InitCrypto == InitCommon /\ router = "RouterImpl"

NextCrypto ==
    \/ \E m \in Payloads, seed \in Seeds, nv \in NonceVals : CryptoEncrypt(m, seed, nv)
    \/ \E how \in TamperKinds : CryptoTamper(how)
    \/ \E key \in KeyBytes : CryptoDecrypt(key)
    \/ \E m \in Payloads, seed \in Seeds : CryptoSign(m, seed)
    \/ \E how \in SignatureTamperKinds : CryptoTamperSignature(how)
    \/ \E m \in Payloads, seed \in Seeds : CryptoVerify(m, generate_keypair(seed)[1])
    \/ CryptoReset

SpecCrypto == InitCrypto /\ [][NextCrypto]_vars

InitRpcManager == InitCommon /\ router = "RouterImpl"

NextRpcManager ==
    \/ \E p \in ProviderInputs : RegisterProvider(p)
    \/ \E id \in ProviderIds, a \in BOOLEAN : UpdateProviderStatus(id, a)
    \/ GetActiveProviders
    \/ GetBestProvider

SpecRpcManager == InitRpcManager /\ [][NextRpcManager]_vars

InitNodeManager == InitCommon /\ router = "RouterImpl"

NextNodeManager ==
    \/ \E n \in NodeInputs : RegisterNode(n)
    \/ \E id \in NodeIds, st \in Statuses : UpdateNodeStatus(id, st)
    \/ \E role \in Roles : GetAvailableNodes(role)
    \/ \E id \in NodeIds : GetNode(id)

SpecNodeManager == InitNodeManager /\ [][NextNodeManager]_vars

\* A registry the coordinator reaches by five register_node calls: one entry,
\* three routing and one exit node, all Online.
\* The nodes whose status changes while the entry node serves requests: one
\* routing node and the exit node, enough for create_circuit to succeed, to
\* fail and to select different hops. SpecRouter changes every node.
ToggledIds == {2, 4}

\* Registries in which the pool of entry nodes, or all but one routing node,
\* is not Online from the start.
InitTopologies ==
    { InitTopology,
      [InitTopology EXCEPT ![1].status = "Offline"],
      [InitTopology EXCEPT ![3].status = "Busy", ![5].status = "Busy"] }

\* The request id handle_request resolved last, if any.
ResolvedIds ==
    IF ret.op = "handle_request" /\ ret.request_id.kind = "some"
    THEN {ret.request_id.val} ELSE {}

\* MockRouter never reads the registry; the entry node binary's registry is empty.
Init ==
    /\ router \in {"RouterImpl", "MockRouter"}
    /\ nodes \in IF router = "RouterImpl" THEN InitTopologies ELSE {<<>>}
    /\ providers = InitProviders
    /\ users = InitUsers
    /\ active_circuits = EmptyMap
    /\ now = 0
    /\ rng = 0
    /\ wire = <<>>
    /\ next_hop_connections = [n \in RoutingIds |-> EmptyMap]
    /\ calls = [t \in Tasks |-> Idle]
    /\ cx = CxIdle
    /\ ret = [op |-> "none"]

Next ==
    \/ \E k \in ApiKeys, m \in Methods, id \in RpcIds : HandleRpc(k, m, id)
    \/ \E id \in ResolvedIds : ReceiveResponse(id)
    \/ \E id \in ToggledIds, st \in {"Online", "Offline"} : UpdateNodeStatus(id, st)
    \/ Tick

Spec == Init /\ [][Next]_vars

\* The router alone, over every status of every node of the topology.
CreateCircuit ==
    /\ rng < MaxDraws
    /\ \E dt \in Elapsed :
       LET made == create_circuit(router, nodes, now, dt, rng)
       IN  /\ rng' = made.rng
           /\ ret' = [op |-> "create_circuit", at |-> now, result |-> made.res]
    /\ UNCHANGED <<nodes, providers, users, active_circuits, router, now, wire, calls, cx, next_hop_connections>>

NextRouter ==
    \/ CreateCircuit
    \/ \E id \in TopologyIds, st \in Statuses : UpdateNodeStatus(id, st)
    \/ Tick

SpecRouter == Init /\ [][NextRouter]_vars

\* The exit node: its provider registry and the requests of the routing layer.
InitExit == InitCommon /\ router = "RouterImpl"

NextExit ==
    \/ \E p \in ProviderInputs : RegisterProvider(p)
    \/ \E id \in ProviderIds, a \in BOOLEAN : UpdateProviderStatus(id, a)
    \/ \E request \in ExitRequests : ExitHandleRequest(request)
    \/ Tick

SpecExit == InitExit /\ [][NextExit]_vars

\* Concurrent requests inside get_or_create_circuit.
NextTasks ==
    \/ \E t \in Tasks, k \in ActiveKeys : TaskCall(t, k)
    \/ \E t \in Tasks : TaskReadLock(t)
    \/ \E t \in Tasks : TaskLookup(t)
    \/ \E t \in Tasks : TaskCreate(t)
    \/ \E t \in Tasks : TaskWriteLock(t)
    \/ \E t \in Tasks : TaskInsert(t)
    \/ \E t \in Tasks : TaskReturn(t)

SpecTasks == Init /\ [][NextTasks]_vars

----------------------------------------------------------------------------
(* RoutingNodeService: a middle hop, and its /forward endpoint.            *)

\* A handler that opens and keeps a connection for the circuit of the request.
RoutingNodeService_handle_request_Connect(conns, node_id, request) ==
    [res |-> IF request.circuit_id \in DOMAIN conns THEN Ok("unit") ELSE Err("connecting"),
     forwarded |-> <<>>,
     conns |-> Insert(conns, request.circuit_id, "hyper::Client")]

\* RoutingNodeService::handle_request logs the request and returns Ok(()).
\* forwarded is what it sent over next_hop_connections: the map is created
\* empty and never read, so nothing is sent. conns is the map it leaves.
RoutingNodeService_handle_request(conns, node_id, request) ==
    [res |-> Ok("unit"), forwarded |-> <<>>, conns |-> conns]

\* RoutingNodeService::handle_response logs the response and returns Ok(()).
RoutingNodeService_handle_response(conns, node_id, response) ==
    [res |-> Ok("unit"), forwarded |-> <<>>, conns |-> conns]

\* handle_forward_request: the ForwardResponse for the service's result.
handle_forward_request(res) ==
    IF res.kind = "ok"
    THEN [success |-> TRUE, error |-> None]
    ELSE [success |-> FALSE, error |-> Some(res.error)]

\* handle_receive_response: the ReceiveResponseResult for the service's result.
handle_receive_response(res) ==
    IF res.kind = "ok"
    THEN [success |-> TRUE, error |-> None]
    ELSE [success |-> FALSE, error |-> Some(res.error)]

\* The layers that reach the routing nodes: each sealed for one of the routing
\* hops, by encrypt with that hop's key.
HopKey(node_id) == generate_keypair(node_id)[1]
RoutingPayloads == {encrypt(m, HopKey(k), "n1") : m \in Payloads, k \in RoutingIds}
RoutingRequests ==
    [id : RequestUuids, circuit_id : CircuitUuids, payload : RoutingPayloads,
     created_at : {0}]

RoutingResponses ==
    [request_id : RequestUuids, circuit_id : CircuitUuids, payload : RoutingPayloads,
     created_at : {0}]

\* POST /forward on the routing node node_id.
ForwardRequest(node_id, request) ==
    /\ LET out == RoutingNodeService_handle_request(next_hop_connections[node_id],
                                                    node_id, request)
       IN  /\ next_hop_connections' = [next_hop_connections EXCEPT ![node_id] = out.conns]
           /\ ret' = [op |-> "forward_request", node_id |-> node_id,
                      request |-> request, at |-> now, result |-> out.res,
                      forwarded |-> out.forwarded,
                      http |-> handle_forward_request(out.res)]
    /\ UNCHANGED <<nodes, providers, users, active_circuits, router, now, rng, wire, calls, cx>>

\* POST /receive on the routing node node_id.
ReceiveRouted(node_id, response) ==
    /\ LET out == RoutingNodeService_handle_response(next_hop_connections[node_id],
                                                     node_id, response)
       IN  /\ next_hop_connections' = [next_hop_connections EXCEPT ![node_id] = out.conns]
           /\ ret' = [op |-> "receive_routed", node_id |-> node_id,
                      response |-> response, at |-> now, result |-> out.res,
                      forwarded |-> out.forwarded,
                      http |-> handle_receive_response(out.res)]
    /\ UNCHANGED <<nodes, providers, users, active_circuits, router, now, rng, wire, calls, cx>>

InitRouting == InitCommon /\ router = "RouterImpl"

NextRouting ==
    \/ \E node_id \in RoutingIds, request \in RoutingRequests :
          ForwardRequest(node_id, request)
    \/ \E node_id \in RoutingIds, response \in RoutingResponses :
          ReceiveRouted(node_id, response)
    \/ Tick

SpecRouting == InitRouting /\ [][NextRouting]_vars

----------------------------------------------------------------------------
(* CoordinatorService: the topology and provider health operations.        *)

\* CoordinatorService::update_topology logs and returns Ok(()): it reads no
\* node and calls no method of node_manager.
CoordinatorService_update_topology(ns) == [res |-> Ok("unit"), nodes |-> ns]

\* CoordinatorService::check_rpc_health logs and returns Ok(()): it calls no
\* method of rpc_manager.
CoordinatorService_check_rpc_health(ps) == [res |-> Ok("unit"), providers |-> ps]

\* reachable: the nodes that answer a probe while the operation runs.
UpdateTopology(reachable) ==
    /\ LET out == CoordinatorService_update_topology(nodes)
       IN  /\ nodes' = out.nodes
           /\ ret' = [op |-> "update_topology", reachable |-> reachable,
                      result |-> out.res]
    /\ UNCHANGED <<providers, users, active_circuits, router, now, rng, wire, calls, cx, next_hop_connections>>

\* healthy: the providers whose endpoint answers while the operation runs.
CheckRpcHealth(healthy) ==
    /\ LET out == CoordinatorService_check_rpc_health(providers)
       IN  /\ providers' = out.providers
           /\ ret' = [op |-> "check_rpc_health", healthy |-> healthy,
                      result |-> out.res]
    /\ UNCHANGED <<nodes, users, active_circuits, router, now, rng, wire, calls, cx, next_hop_connections>>

InitCoordinator == Init /\ router = "RouterImpl"

\* A NodeId that no register_node call has named.
UnregisteredNodeIds == {6}

NextCoordinator ==
    \/ \E id \in ToggledIds \cup UnregisteredNodeIds, status \in {"Online", "Offline"} :
          UpdateNodeStatus(id, status)
    \/ \E id \in ProviderIds, a \in BOOLEAN : UpdateProviderStatus(id, a)
    \/ \E reachable \in SUBSET TopologyIds : UpdateTopology(reachable)
    \/ \E healthy \in SUBSET {p.id : p \in SeqToSet(InitProviders)} : CheckRpcHealth(healthy)

SpecCoordinator == InitCoordinator /\ [][NextCoordinator]_vars

----------------------------------------------------------------------------
(* Properties.                                                             *)

\* C1: get_or_create_circuit never returns a circuit whose expires_at <= now;
\* when the client's cached circuit is expired, the circuit returned is a
\* freshly built one, which replaces it in the cache.
C1_ExpiredNeverReturned ==
    (ret.op = "handle_request" /\ ret.goc.kind = "called" /\ ret.goc.res.kind = "ok") =>
        LET c == ret.goc.res.val
            cached == ret.goc.cached
        IN  /\ c.expires_at > ret.at
            /\ (cached.kind = "some" /\ cached.val.expires_at <= ret.at) =>
                   /\ ret.goc.built
                   /\ c.id # cached.val.id
                   /\ c.created_at = ret.at
                   /\ active_circuits[ret.api_key] = c

\* C1 happens: a call found an expired circuit in the cache, one that expires
\* exactly now included, and returned a circuit.
C1_Witness ==
    /\ ret.op = "handle_request"
    /\ ret.goc.kind = "called"
    /\ ret.goc.res.kind = "ok"
    /\ ret.goc.cached.kind = "some"
    /\ ret.goc.cached.val.expires_at = ret.at

\* C2: for a key pair (pk, sk) of generate_keypair and every message m,
\* decrypt(encrypt(m, pk), sk) succeeds and returns m.
C2_RoundTrip ==
    (cx.stage = "decrypted" /\ cx.how = "none" /\ cx.key = generate_keypair(cx.seed)[2]) =>
        cx.out = Ok(cx.m)

\* Each hop opens one layer with the key the circuit assigns to it.
RECURSIVE UnwrapLayers(_, _)
UnwrapLayers(payload, hop_keys) ==
    IF hop_keys = <<>> THEN Ok(payload)
    ELSE LET opened == decrypt(payload, Head(hop_keys))
         IN  IF opened.kind = "ok" THEN UnwrapLayers(opened.val, Tail(hop_keys)) ELSE opened

\* C3: a request that handle_request sent was dispatched as an onion with one
\* layer per routing hop and one for the exit, which the hops unwrap in circuit
\* order to exactly the payload; the dispatched bytes are not the plaintext.
C3_OnionRoundTrip ==
    (ret.op = "handle_request" /\ ret.result.kind = "ok") =>
        LET circuit == ret.goc.res.val
        IN  \E i \in 1..Len(wire) :
                /\ wire[i].id = ret.request_id.val
                /\ wire[i].circuit_id = circuit.id
                /\ wire[i].payload # ret.request
                /\ UnwrapLayers(wire[i].payload, Tail(circuit.symmetric_keys)) = Ok(ret.request)

\* C4: decrypt returns an error, never a plaintext, when the ciphertext or the
\* nonce was modified or when the key is any key other than the private key of
\* the pair encrypt used, the public key itself included.
C4_WrongKeyOrTamperFails ==
    ( /\ cx.stage = "decrypted"
      /\ cx.ed.nonce.len = NONCE_LEN
      /\ (cx.how # "none" \/ cx.key # generate_keypair(cx.seed)[2]) ) =>
        cx.out.kind = "err"

\* C5: decrypt of an EncryptedData whose nonce is not 12 bytes long returns an
\* error value: it neither panics nor returns a plaintext.
C5_BadNonceIsError ==
    (cx.stage = "decrypted" /\ cx.ed.nonce.len # NONCE_LEN) => cx.out.kind = "err"

\* C6: every circuit create_circuit builds has len(symmetric_keys) equal to
\* len(routing_nodes) + 2 and pairwise distinct symmetric keys.
C6_CircuitKeys ==
    (ret.op = "create_circuit" /\ ret.result.kind = "ok") =>
        LET c == ret.result.val
        IN  /\ Len(c.symmetric_keys) = Len(c.routing_nodes) + 2
            /\ \A i, j \in 1..Len(c.symmetric_keys) :
                   c.symmetric_keys[i] = c.symmetric_keys[j] => i = j

\* C6 happens: create_circuit built a second circuit, after other draws.
C6_Witness ==
    /\ ret.op = "create_circuit"
    /\ ret.result.kind = "ok"
    /\ Len(ret.result.val.symmetric_keys) > 1
    /\ rng > Len(ret.result.val.symmetric_keys) + 5

IdOf(best) == IF best.kind = "some" THEN best.val.id ELSE 0

\* C7: get_best_provider returns None exactly when no provider is active,
\* otherwise an active provider of maximal success_rate among the active ones;
\* a provider set inactive is not returned until it is set active again.
C7_BestProvider ==
    /\ ret.op = "get_best_provider" =>
           LET best == ret.result.val
               active == {i \in 1..Len(providers) : providers[i].active}
           IN  /\ (best = None) <=> (active = {})
               /\ best # None =>
                      /\ \E i \in active : providers[i] = best.val
                      /\ \A i \in active : providers[i].success_rate <= best.val.success_rate
    /\ (ret.op = "update_provider_status" /\ ~ret.active) =>
           IdOf(get_best_provider(providers)) # ret.provider_id

Reordered(ps, f) == [i \in 1..Len(ps) |-> ps[f[i]]]

\* C8: among the active providers of maximal success_rate get_best_provider
\* returns the one of lowest avg_latency, then lowest id, so that the same
\* providers registered in another order give the same answer. Stated for
\* registries with one entry per id.
C8_TieBreakOrderIndependent ==
    ( /\ ret.op = "get_best_provider"
      /\ ret.result.val # None
      /\ \A i, j \in 1..Len(providers) : providers[i].id = providers[j].id => i = j ) =>
        LET best == ret.result.val.val
            ties == {i \in 1..Len(providers) :
                        providers[i].active /\ providers[i].success_rate = best.success_rate}
        IN  /\ \A i \in ties :
                   \/ best.avg_latency < providers[i].avg_latency
                   \/ best.avg_latency = providers[i].avg_latency /\ best.id <= providers[i].id
            /\ \A f \in Permutations(1..Len(providers)) :
                   get_best_provider(Reordered(providers, f)) = ret.result.val

\* C9: get_available_nodes(role) returns exactly the registered nodes of that
\* role whose status is Online: each of them once, and no node of another role
\* or of status Busy, Offline or Maintenance.
C9_AvailableNodesExact ==
    ret.op = "get_available_nodes" =>
        LET out == ret.result.val
            matching == {i \in 1..Len(nodes) :
                            nodes[i].role = ret.role /\ nodes[i].status = "Online"}
        IN  /\ \A k \in 1..Len(out) : out[k].role = ret.role /\ out[k].status = "Online"
            /\ Len(out) = Cardinality(matching)
            /\ \A i \in matching : \E k \in 1..Len(out) : out[k] = nodes[i]
            /\ \A k \in 1..Len(out) : \E i \in matching : nodes[i] = out[k]

\* C9 happens: the call returned a node and left out a registered node of the
\* same role that is not Online.
C9_Witness ==
    /\ ret.op = "get_available_nodes"
    /\ Len(ret.result.val) > 0
    /\ \E i \in 1..Len(nodes) : nodes[i].role = ret.role /\ nodes[i].status # "Online"

\* C10: the registry holds at most one node per id, so get_available_nodes
\* never returns two nodes of one id and, after update_node_status(id, s) with
\* s other than Online, returns no node of that id.
C10_OneNodePerId ==
    /\ \A i, j \in 1..Len(nodes) : nodes[i].id = nodes[j].id => i = j
    /\ ret.op = "get_available_nodes" =>
           \A i, j \in 1..Len(ret.result.val) :
               ret.result.val[i].id = ret.result.val[j].id => i = j
    /\ (ret.op = "update_node_status" /\ ret.status # "Online") =>
           \A role \in Roles :
               \A k \in 1..Len(get_available_nodes(nodes, role)) :
                   get_available_nodes(nodes, role)[k].id # ret.node_id

----------------------------------------------------------------------------
(* Circuit building failures, authentication, and the cache hit.           *)

HopRoles == {"Entry", "Routing", "Exit"}

\* The nodes of the registry that are Online in the given role.
OnlinePool(role) ==
    {i \in DOMAIN nodes : nodes[i].role = role /\ nodes[i].status = "Online"}

\* The error create_circuit raises for an empty pool of the given role.
NoAvailableNodes(role) ==
    CASE role = "Entry" -> Err("No available entry nodes")
      [] role = "Routing" -> Err("No available routing nodes")
      [] role = "Exit" -> Err("No available exit nodes")

EmptyPools == {role \in HopRoles : OnlinePool(role) = {}}

\* The last call reached get_or_create_circuit and found no unexpired circuit.
CacheMiss ==
    /\ ret.op = "handle_request"
    /\ ret.goc.kind = "called"
    /\ (ret.goc.cached.kind = "none" \/ ret.goc.cached.val.expires_at <= ret.at)

\* The last call failed because a pool was empty.
FailedForPool(r) ==
    /\ r.op = "handle_request"
    /\ r.goc.kind = "called"
    /\ r.result \in {NoAvailableNodes(role) : role \in HopRoles}

C11_FailsWhenPoolEmpty ==
    (router = "RouterImpl" /\ CacheMiss) =>
        /\ (ret.result.kind = "err") <=> (EmptyPools # {})
        /\ EmptyPools # {} =>
              /\ ret.result \in {NoAvailableNodes(role) : role \in EmptyPools}
              /\ ~ret.goc.built
              /\ ret.request_id = None

C11_CacheUntouched ==
    FailedForPool(ret') => (active_circuits' = active_circuits /\ wire' = wire)

C11_FailsAgain ==
    (FailedForPool(ret) /\ ret'.op = "handle_request" /\ ret'.api_key = ret.api_key
        /\ nodes' = nodes)
    => ret'.result = ret.result

\* C11: with the registry-backed router, building a circuit fails with the
\* no-available-nodes error of a role whose pool of Online nodes is empty,
\* exactly when one of the three pools is empty; a get_or_create_circuit that
\* fails this way leaves the circuit cache as it was, and the same client's
\* next call, the pools unchanged, fails the same way.
C11_NoAvailableNodes ==
    /\ []C11_FailsWhenPoolEmpty
    /\ [][C11_CacheUntouched /\ C11_FailsAgain]_vars

\* A client whose cached circuit has expired is refused for want of an exit node.
C11_Witness ==
    /\ router = "RouterImpl"
    /\ FailedForPool(ret)
    /\ ret.result = NoAvailableNodes("Exit")
    /\ ret.goc.cached.kind = "some"
    /\ ret.api_key \in DOMAIN active_circuits

\* C12: a request whose API key belongs to no user fails with the invalid-key
\* error, one whose user is inactive with the inactive-subscription error, and
\* in both cases nothing else has happened: the request was not sanitized,
\* get_or_create_circuit was not called, no request id was issued, and the
\* cache, the wire and the random source are as before.
C12_AuthFirst ==
    /\ [](ret.op = "handle_request" =>
            LET matching == {i \in DOMAIN users : users[i].api_key = ret.api_key}
                rejected == matching = {} \/ \E i \in matching : ~users[i].active
            IN  /\ matching = {} => ret.result = Err("Invalid API key")
                /\ (matching # {} /\ \A i \in matching : ~users[i].active)
                      => ret.result = Err("User subscription is not active")
                /\ ret.result \in {Err("Invalid API key"),
                                   Err("User subscription is not active")}
                      => /\ rejected
                         /\ ret.sanitized = None
                         /\ ret.goc = NotCalled
                         /\ ret.request_id = None)
    /\ [][(ret'.op = "handle_request" /\ ret'.goc = NotCalled)
            => (active_circuits' = active_circuits /\ wire' = wire /\ rng' = rng)]_vars

\* An inactive user is refused while other clients' circuits are cached.
C12_Witness ==
    /\ ret.op = "handle_request"
    /\ ret.result = Err("User subscription is not active")
    /\ ret.goc = NotCalled
    /\ DOMAIN active_circuits # {}

\* The last call found an unexpired circuit cached for its client.
CacheHit ==
    /\ ret.op = "handle_request"
    /\ ret.goc.kind = "called"
    /\ ret.goc.cached.kind = "some"
    /\ ret.goc.cached.val.expires_at > ret.at

\* C19: when the cache holds a circuit for the client that expires after the
\* time of the call, get_or_create_circuit returns that circuit, builds none
\* (the only random draw of the call is the request id), and leaves the cache
\* as it was.
C19_CacheHitFrame ==
    /\ [](CacheHit =>
            /\ ret.goc.res = Ok(ret.goc.cached.val)
            /\ ~ret.goc.built
            /\ active_circuits[ret.api_key] = ret.goc.cached.val)
    /\ [][(CacheHit' /\ rng' # rng)
            => (active_circuits' = active_circuits /\ rng' = rng + 1)]_vars

\* A second request of a client is served from the circuit built for the first.
C19_Witness ==
    /\ CacheHit
    /\ ret.at > ret.goc.cached.val.created_at
    /\ ret.result.kind = "ok"

----------------------------------------------------------------------------
(* The exit node's response.                                               *)

\* C15: the Response the exit node returns for a Request carries that
\* Request's id as request_id and that Request's circuit id as circuit_id.
C15_ResponseEchoesIds ==
    (ret.op = "exit_handle_request" /\ ret.result.kind = "ok") =>
        /\ ret.result.val.request_id = ret.request.id
        /\ ret.result.val.circuit_id = ret.request.circuit_id

\* A request is answered while a provider with another id is the best one.
C15_Witness ==
    /\ ret.op = "exit_handle_request"
    /\ ret.result.kind = "ok"
    /\ ret.result.val.request_id = ret.request.id
    /\ ret.provider.val.id # 1
    /\ ret.at > 0

ActiveProviders == {i \in DOMAIN providers : providers[i].active}

\* C16: the exit node fails with the no-available-providers error, and returns
\* no Response, exactly when no registered provider is active, which is when
\* get_best_provider returns None; otherwise the provider it selects is the
\* one get_best_provider returns, an active provider of the highest success rate.
C16_ProviderSelection ==
    ret.op = "exit_handle_request" =>
        /\ (ret.result = Err("No available RPC providers")) <=> (ActiveProviders = {})
        /\ (ret.result.kind = "err") <=> (get_best_provider(providers) = None)
        /\ ret.provider = get_best_provider(providers)
        /\ ret.result.kind = "ok" =>
              \E i \in ActiveProviders :
                  /\ providers[i] = ret.provider.val
                  /\ \A j \in ActiveProviders :
                        providers[j].success_rate <= providers[i].success_rate

\* The exit node is refused for want of a provider although providers are registered.
C16_Witness ==
    /\ ret.op = "exit_handle_request"
    /\ ret.result = Err("No available RPC providers")
    /\ ret.provider = None
    /\ Len(providers) >= 2

----------------------------------------------------------------------------
(* Responses: correlation, the envelope, and errors at the endpoint.       *)

\* C13: a response handed out for a request id that handle_request has
\* already resolved is discarded: at most one response is delivered per
\* request id.
C13_SecondResponseDiscarded ==
    [][(/\ ret.op = "handle_request"
        /\ ret.request_id.kind = "some"
        /\ ret.result.kind = "ok"
        /\ ret'.op = "receive_response"
        /\ ret'.request_id = ret.request_id.val)
       => ret'.result.kind = "err"]_vars

\* C14: handle_request returns a response only when a hop has delivered, for
\* the request id it dispatched, a response with that payload; it never
\* returns a payload that no hop delivered.
C14_OnlyDeliveredResponses ==
    (ret.op = "handle_request" /\ ret.result.kind = "ok") =>
        \E i \in DOMAIN wire :
            /\ wire[i].kind = "response"
            /\ wire[i].request_id = ret.request_id.val
            /\ wire[i].payload = ret.result.val

ErrorMessages ==
    {"Invalid API key", "User subscription is not active",
     "No available entry nodes", "No available routing nodes", "No available exit nodes"}

\* C18: the answer the client gets for a failed request identifies the kind
\* of error: no other kind of error would have produced the same answer.
C18_ErrorsIdentified ==
    (ret.op = "handle_request" /\ ret.result.kind = "err") =>
        \A e \in ErrorMessages \ {ret.result.error} : HttpAnswer(Err(e)) # ret.http

----------------------------------------------------------------------------
(* Concurrent callers of get_or_create_circuit.                            *)

\* Two different tasks working for the same client.
SameClient(t1, t2) ==
    /\ t1 # t2
    /\ calls[t1].pc # "idle"
    /\ calls[t2].pc # "idle"
    /\ calls[t1].api_key = calls[t2].api_key

\* C20: with concurrent get_or_create_circuit calls for one client, lookup,
\* build and insert exclude each other: no two callers each hold a circuit
\* they built for the client and have yet to insert, and every caller that has
\* its circuit holds the one the cache holds for the client.
C20_LookupBuildInsertExclusive ==
    /\ \A t1, t2 \in Tasks :
          SameClient(t1, t2) => ~(calls[t1].pc = "insert" /\ calls[t2].pc = "insert")
    /\ \A t \in Tasks :
          (calls[t].pc = "done" /\ calls[t].result.kind = "ok")
          => active_circuits[calls[t].api_key] = calls[t].result.val

\* C21: the cache entry of a client changes only by a newly built circuit
\* taking the place of one that has expired: a cached circuit that is still
\* unexpired is never replaced, and no cached circuit is altered in place.
C21_ReplacedOnlyWhenExpired ==
    [][\A k \in DOMAIN active_circuits :
          active_circuits'[k] # active_circuits[k]
          => /\ ~(active_circuits[k].expires_at > now)
             /\ active_circuits'[k].id # active_circuits[k].id]_vars

\* Task t is at a lock acquisition that the guard held by task u keeps it from.
WaitsFor(t, u) ==
    /\ t # u
    /\ \/ calls[t].pc = "lookup" /\ u \in Writers
       \/ calls[t].pc = "insert" /\ u \in Readers \cup Writers

\* C22: a lookup or an insertion for one client never waits for a lock that
\* an operation on another client holds.
C22_ClientsIndependent ==
    \A t, u \in Tasks :
        WaitsFor(t, u) => calls[t].api_key = calls[u].api_key

----------------------------------------------------------------------------
(* The node registry over time.                                            *)

\* Every node of the registry is still there after the step, with the fields
\* that identify it.
NodesKept ==
    /\ Len(nodes') >= Len(nodes)
    /\ \A i \in 1..Len(nodes) :
          /\ nodes'[i].id = nodes[i].id
          /\ nodes'[i].role = nodes[i].role
          /\ nodes'[i].region = nodes[i].region

\* A step of update_node_status that changes the registry changes the status
\* of one node of the given id and nothing else.
OnlyStatusChanged ==
    (ret'.op = "update_node_status" /\ nodes' # nodes) =>
        \E i \in 1..Len(nodes) :
            /\ nodes[i].id = ret'.node_id
            /\ nodes' = [nodes EXCEPT ![i].status = ret'.status]

\* C23: a registered node is never deleted: whatever operations follow its
\* registration, get_node finds a node for its id; and update_node_status
\* changes nothing but the status of the node with the given id: its other
\* fields and all other nodes stay as they are.
C23_NeverDeletedOnlyStatus ==
    /\ [](\A i \in 1..Len(nodes) : get_node(nodes, nodes[i].id).kind = "some")
    /\ [](ret.op = "get_node" =>
            (ret.result.val.kind = "some"
                <=> \E i \in 1..Len(nodes) : nodes[i].id = ret.node_id))
    /\ [][NodesKept /\ OnlyStatusChanged]_vars

\* A node was reported Offline and is still registered, next to another node.
C23_Witness ==
    /\ ret.op = "update_node_status"
    /\ ret.status = "Offline"
    /\ \E i, j \in 1..Len(nodes) :
          /\ nodes[i].id = ret.node_id
          /\ nodes[i].status = "Offline"
          /\ nodes[j].id # ret.node_id
          /\ nodes[j].status = "Online"

----------------------------------------------------------------------------
(* Signatures.                                                             *)

\* C24: verify returns an error value, and does not panic, for a signature
\* of the wrong length or of malformed encoding; and for an unmodified
\* signature made by sign over the same data with the private key of the
\* pair, verify with the pair's public key returns true.
C24_VerifyRejectsAndAccepts ==
    cx.stage = "verified" =>
        /\ cx.out # Panic
        /\ cx.how \in {"truncated", "bad_scalar"} => cx.out = Err("signature error")
        /\ (cx.how = "none" /\ cx.data = cx.m /\ cx.key = generate_keypair(cx.seed)[1])
              => cx.out = Ok(TRUE)

\* A signature cut short was presented together with the right key and data.
C24_Witness ==
    /\ cx.stage = "verified"
    /\ cx.how = "truncated"
    /\ cx.data = cx.m
    /\ cx.key = generate_keypair(cx.seed)[1]
    /\ cx.out.kind = "err"

----------------------------------------------------------------------------
(* The hops create_circuit selects.                                        *)

\* The region of the registered node with the given id.
RegionOfNode(id) == (CHOOSE n \in SeqToSet(nodes) : n.id = id).region

\* C25: when the pool of Online routing nodes holds two nodes of different
\* regions, the two consecutive routing hops of a circuit that create_circuit
\* builds from the registry are in different regions; and the circuit is
\* built whenever no pool is empty, alternative or not.
C25_RegionsAlternate ==
    (ret.op = "create_circuit" /\ router = "RouterImpl") =>
        LET pool == OnlinePool("Routing")
            alternative == \E i, j \in pool : nodes[i].region # nodes[j].region
        IN  /\ (EmptyPools = {}) => ret.result.kind = "ok"
            /\ (ret.result.kind = "ok" /\ alternative) =>
                  RegionOfNode(ret.result.val.routing_nodes[1])
                      # RegionOfNode(ret.result.val.routing_nodes[2])

----------------------------------------------------------------------------
(* The exit node's answer.                                                 *)

\* C27: the payload of the Response the exit node returns is never the
\* payload of the incoming request unchanged (it is the provider's response,
\* encrypted for the way back).
C27_PayloadNotEchoed ==
    (ret.op = "exit_handle_request" /\ ret.result.kind = "ok") =>
        ret.result.val.payload # ret.request.payload

\* C28: the exit node sends the request to at most 1 + 2 providers, each of
\* them active, in the order of selection, and a Response is returned only
\* when one of these attempts was made and succeeded.
C28_DispatchWithRetries ==
    (ret.op = "exit_handle_request") =>
        /\ Len(ret.dispatched) <= 1 + 2
        /\ \A i \in DOMAIN ret.dispatched :
               \E j \in ActiveProviders : providers[j] = ret.dispatched[i]
        /\ (ret.result.kind = "ok") => Len(ret.dispatched) >= 1

----------------------------------------------------------------------------
(* A routing node and a layer it cannot open.                              *)

\* No key of the node opens the layer of the request.
CannotDecrypt(node_id, payload) ==
    \A i \in 1..2 : decrypt(payload, generate_keypair(node_id)[i]).kind # "ok"

\* C26: a routing node that cannot decrypt the layer of a request returns an
\* error from handle_request, answers /forward with success = false, and
\* forwards nothing.
C26_UndecryptableLayerDropped ==
    (ret.op = "forward_request" /\ CannotDecrypt(ret.node_id, ret.request.payload)) =>
        /\ ret.result.kind = "err"
        /\ ~ret.http.success
        /\ ret.forwarded = <<>>

----------------------------------------------------------------------------
(* The coordinator's health loop.                                          *)

\* C29: update_topology leaves an Online node Online when it misses one
\* probe, and sets an Offline node that answers the probe back to Online.
C29_ProbesDriveStatus ==
    [][(ret'.op = "update_topology") =>
          \A i \in DOMAIN nodes :
              /\ (nodes[i].status = "Online" /\ nodes[i].id \notin ret'.reachable)
                    => nodes'[i].status = "Online"
              /\ (nodes[i].status = "Offline" /\ nodes[i].id \in ret'.reachable)
                    => nodes'[i].status = "Online"]_vars

----------------------------------------------------------------------------
(* The lifetime of a circuit.                                              *)

\* C30: a circuit that get_or_create_circuit has just built has
\* expires_at = created_at + CIRCUIT_TTL, so expires_at > created_at, and it
\* is unexpired at the time of the call that returns it.
C30_ExpiresOneHourAfterCreation ==
    (ret.op = "handle_request" /\ ret.goc.kind = "called" /\ ret.goc.built) =>
        LET c == ret.goc.res.val
        IN  /\ c.expires_at = c.created_at + CIRCUIT_TTL
            /\ c.expires_at > c.created_at
            /\ c.expires_at > ret.at

----------------------------------------------------------------------------
(* A routing node keeps no session.                                        *)

\* C31: handle_request and handle_response leave next_hop_connections, the
\* only mutable state of a routing node, unchanged, and the outcome of
\* handling a message is the outcome the freshly constructed node gives for
\* it, whatever was handled before.
C31_RoutingNodeStateless ==
    /\ [][next_hop_connections' = next_hop_connections]_vars
    /\ [](ret.op = "forward_request" =>
            ret.result = RoutingNodeService_handle_request(
                             EmptyMap, ret.node_id, ret.request).res)
    /\ [](ret.op = "receive_routed" =>
            ret.result = RoutingNodeService_handle_response(
                             EmptyMap, ret.node_id, ret.response).res)

\* C31 happens: a routing node has handled a response and holds no connection.
C31_Witness ==
    /\ ret.op = "receive_routed"
    /\ ret.result.kind = "ok"
    /\ next_hop_connections[ret.node_id] = EmptyMap

----------------------------------------------------------------------------
(* One client's call and the other clients' circuits.                      *)

\* C32: at every step of every get_or_create_circuit call, the cached circuit
\* of a client is removed or replaced only by the insert of a call made for
\* that same client: a call for client A, whether it hits the cache, builds a
\* circuit or fails, leaves the cached circuit of every other client as it is.
C32_OtherClientsUntouched ==
    [][\A k \in DOMAIN active_circuits :
          (k \notin DOMAIN active_circuits' \/ active_circuits'[k] # active_circuits[k])
          => \E t \in Tasks : /\ calls[t].pc = "writing"
                               /\ calls[t].api_key = k
                               /\ calls'[t].pc = "done"]_vars

\* C32 happens: a call for one client has inserted the circuit it built while
\* another client's circuit is cached.
C32_Witness ==
    \E t \in Tasks :
        /\ calls[t].pc = "done"
        /\ calls[t].built
        /\ \E k \in DOMAIN active_circuits : k # calls[t].api_key

----------------------------------------------------------------------------
(* Whose circuits the cache holds.                                         *)

\* The api keys of the users that exist and are active.
ActiveUserKeys == {users[i].api_key : i \in {j \in DOMAIN users : users[j].active}}

\* C33: the cache maps an api_key to one circuit, every api_key it holds is
\* the key of an existing active user, and a handle_request adds at most the
\* entry of its own api_key, and none when that key is unknown or inactive.
C33_CacheKeysAreActiveUsers ==
    /\ [](DOMAIN active_circuits \subseteq ActiveUserKeys)
    /\ [][ret'.op = "handle_request" =>
            /\ DOMAIN active_circuits' \subseteq DOMAIN active_circuits \cup {ret'.api_key}
            /\ DOMAIN active_circuits \subseteq DOMAIN active_circuits'
            /\ ret'.api_key \notin ActiveUserKeys
                  => active_circuits' = active_circuits]_vars

\* C33 happens: a request with an unknown key is refused while the circuit of
\* an active user is cached.
C33_Witness ==
    /\ ret.op = "handle_request"
    /\ ret.result = Err("Invalid API key")
    /\ ret.api_key \notin DOMAIN active_circuits
    /\ DOMAIN active_circuits # {}

----------------------------------------------------------------------------
(* When create_circuit succeeds, and with how many hops.                   *)

\* C34: with the registry-backed router, create_circuit succeeds whenever each
\* of the roles Entry, Routing and Exit has an Online node; the circuit built
\* has exactly 2 routing hops, and when exactly one Routing node is Online
\* both hops are that node.
C34_TwoRoutingHops ==
    (ret.op = "create_circuit" /\ router = "RouterImpl") =>
        /\ (EmptyPools = {}) => ret.result.kind = "ok"
        /\ (ret.result.kind = "ok") =>
              LET hops == ret.result.val.routing_nodes
                  pool == OnlinePool("Routing")
              IN  /\ Len(hops) = 2
                  /\ Cardinality(pool) = 1 =>
                        \A h \in 1..2 : \A i \in pool : hops[h] = nodes[i].id

\* C34 happens: a circuit was built while one Routing node alone was Online.
C34_Witness ==
    /\ ret.op = "create_circuit"
    /\ router = "RouterImpl"
    /\ ret.result.kind = "ok"
    /\ Cardinality(OnlinePool("Routing")) = 1
    /\ ret.result.val.routing_nodes[1] = ret.result.val.routing_nodes[2]

----------------------------------------------------------------------------
(* Which nodes create_circuit selects.                                     *)

\* The id of the earliest-registered Online node of the given role.
EarliestOnline(role) ==
    nodes[CHOOSE i \in OnlinePool(role) : \A j \in OnlinePool(role) : i <= j].id

\* The ids of the Online nodes of the given role.
OnlineIds(role) == {nodes[i].id : i \in OnlinePool(role)}

----------------------------------------------------------------------------
(* Cached circuits and the status of their nodes.                          *)

\* The registered nodes that are hops of the circuit and are not Online.
HopsNotOnline(circuit) ==
    {i \in DOMAIN nodes :
        /\ nodes[i].id \in {circuit.entry_node, circuit.exit_node}
                              \cup SeqToSet(circuit.routing_nodes)
        /\ nodes[i].status # "Online"}

\* C35: update_node_status leaves the circuit cache as it is, and a cached
\* circuit that has not expired is what get_or_create_circuit returns, without
\* building another, also when one of its hops is no longer Online: expiry is
\* the only test on a cache hit.
C35_StatusNeverEvicts ==
    /\ [][ret'.op = "update_node_status" => active_circuits' = active_circuits]_vars
    /\ [](CacheHit /\ HopsNotOnline(ret.goc.cached.val) # {} =>
            /\ ret.goc.res = Ok(ret.goc.cached.val)
            /\ ~ret.goc.built
            /\ ret.result.kind = "ok")

\* C35 happens: a client is served from its cached circuit after the exit node
\* or a routing node of that circuit was set to Offline.
C35_Witness ==
    /\ CacheHit
    /\ router = "RouterImpl"
    /\ HopsNotOnline(ret.goc.cached.val) # {}
    /\ ret.goc.res = Ok(ret.goc.cached.val)

----------------------------------------------------------------------------
(* Status updates for ids that are not registered.                         *)

\* C36: update_node_status for a NodeId no registered node has, and
\* update_provider_status for an id no registered provider has, return
\* success and leave both registries as they were: no entry is created.
C36_UnknownIdIsNoOp ==
    [][/\ (ret'.op = "update_node_status"
            /\ \A i \in DOMAIN nodes : nodes[i].id # ret'.node_id)
          => (ret'.result.kind = "ok" /\ nodes' = nodes /\ providers' = providers)
       /\ (ret'.op = "update_provider_status"
            /\ \A i \in DOMAIN providers : providers[i].id # ret'.provider_id)
          => (ret'.result.kind = "ok" /\ nodes' = nodes /\ providers' = providers)]_vars

\* C36 happens: the status of a provider that is not registered was updated,
\* in a registry whose providers are not all in their initial status.
C36_Witness ==
    /\ ret.op = "update_provider_status"
    /\ \A i \in DOMAIN providers : providers[i].id # ret.provider_id
    /\ ret.result.kind = "ok"
    /\ providers # InitProviders
    /\ nodes # <<>>

====
